---- MODULE Spec2Model ----
(***************************************************************************)
(* line-clock: a clock drawn with rotating two-line segments (clock.ts).   *)
(*                                                                         *)
(* Conventions of the model                                                *)
(*  - Time (performance.now()) is measured on an integer grid; one         *)
(*    handler (start, stop, a frame callback) runs at one instant.         *)
(*  - Angles are quarter turns in the source (0, 1, 2, 2.5, 3 ...).  Here  *)
(*    one quarter turn is Q == 2 * duration units, so that the glyph       *)
(*    angles (multiples of 1/2) and their linear interpolation at every    *)
(*    grid instant t = dt / duration are integers and are computed         *)
(*    without rounding.                                                    *)
(*  - Glyph characters are written in ASCII:                               *)
(*      "L" corner up-right  [0,1]     "I" vertical    [0,2]               *)
(*      "J" corner up-left   [0,3]     "F" corner down-right [1,2]         *)
(*      "H" horizontal       [1,3]     "Z" corner down-left  [2,3]         *)
(*      " " blank            [2.5,2.5]                                     *)
(*  - `same` records that `from` and `to` are the same array object        *)
(*    (the test from === to of segment.update).                            *)
(*  - shown / shownChar record what render() last drew on the canvas and   *)
(*    for which glyph; drew records whether the latest update() of the     *)
(*    segment called render().                                             *)
(*  - op names the handler that ran last.                                  *)
(*  - The document is the body, the container `node` of the clock and one  *)
(*    other element `host`; parent is the element the container is a child *)
(*    of, hostIn tells whether host is in the document.  A script changes  *)
(*    the document by one operation per task, and the MutationObserver     *)
(*    callback runs right after it with the record of that operation.      *)
(*  - arg / ret hold the argument and the result of a call of one of the   *)
(*    pure functions (parse, fwd, sort) made on its own.                   *)
(***************************************************************************)
EXTENDS Integers, Sequences, FiniteSets, TLC

(* ------------------------------ bounds --------------------------------- *)
\* length of a glyph transition, in grid instants (parameter `duration`)
duration == 2
\* performance.now() runs over 0..MaxTime
MaxTime == 3
\* cap on the number of queued requestAnimationFrame callbacks
MaxPending == 2
\* parse is called on its own with width 1..MaxW and height 1..MaxH
MaxW == 2
MaxH == 2

(* ------------------------- program constants -------------------------- *)
width == 4
height == 6
delay == 0
max == 4
count == 2
NumDigits == 2
NumNumerics == 3

\* one quarter turn, in model units
Q == 2 * duration

Min2(a, b) == IF a <= b THEN a ELSE b
Max2(a, b) == IF a >= b THEN a ELSE b

(* --------------------------- glyph source ------------------------------ *)
\* the text of data.txt, one character per element
data ==
  <<"F","H","H","Z">> \o <<"\n">> \o
  <<"I","F","Z","I">> \o <<"\n">> \o
  <<"I","I","I","I">> \o <<"\n">> \o
  <<"I","I","I","I">> \o <<"\n">> \o
  <<"I","L","J","I">> \o <<"\n">> \o
  <<"L","H","H","J">> \o <<"\n">> \o
  <<"\n">> \o
  <<"F","H","Z"," ">> \o <<"\n">> \o
  <<"L","Z","I"," ">> \o <<"\n">> \o
  <<" ","I","I"," ">> \o <<"\n">> \o
  <<" ","I","I"," ">> \o <<"\n">> \o
  <<"F","J","L","Z">> \o <<"\n">> \o
  <<"L","H","H","J">> \o <<"\n">> \o
  <<"\n">> \o
  <<"F","H","H","Z">> \o <<"\n">> \o
  <<"L","H","Z","I">> \o <<"\n">> \o
  <<"F","H","J","I">> \o <<"\n">> \o
  <<"I","F","H","J">> \o <<"\n">> \o
  <<"I","L","H","Z">> \o <<"\n">> \o
  <<"L","H","H","J">> \o <<"\n">> \o
  <<"\n">> \o
  <<"F","H","H","Z">> \o <<"\n">> \o
  <<"L","H","Z","I">> \o <<"\n">> \o
  <<"F","H","J","I">> \o <<"\n">> \o
  <<"L","H","Z","I">> \o <<"\n">> \o
  <<"F","H","J","I">> \o <<"\n">> \o
  <<"L","H","H","J">> \o <<"\n">> \o
  <<"\n">> \o
  <<"F","Z","F","Z">> \o <<"\n">> \o
  <<"I","I","I","I">> \o <<"\n">> \o
  <<"I","L","J","I">> \o <<"\n">> \o
  <<"L","H","Z","I">> \o <<"\n">> \o
  <<" "," ","I","I">> \o <<"\n">> \o
  <<" "," ","L","J">> \o <<"\n">> \o
  <<"\n">> \o
  <<"F","H","H","Z">> \o <<"\n">> \o
  <<"I","F","H","J">> \o <<"\n">> \o
  <<"I","L","H","Z">> \o <<"\n">> \o
  <<"L","H","Z","I">> \o <<"\n">> \o
  <<"F","H","J","I">> \o <<"\n">> \o
  <<"L","H","H","J">> \o <<"\n">> \o
  <<"\n">> \o
  <<"F","H","H","Z">> \o <<"\n">> \o
  <<"I","F","H","J">> \o <<"\n">> \o
  <<"I","L","H","Z">> \o <<"\n">> \o
  <<"I","F","Z","I">> \o <<"\n">> \o
  <<"I","L","J","I">> \o <<"\n">> \o
  <<"L","H","H","J">> \o <<"\n">> \o
  <<"\n">> \o
  <<"F","H","H","Z">> \o <<"\n">> \o
  <<"L","H","Z","I">> \o <<"\n">> \o
  <<" "," ","I","I">> \o <<"\n">> \o
  <<" "," ","I","I">> \o <<"\n">> \o
  <<" "," ","I","I">> \o <<"\n">> \o
  <<" "," ","L","J">> \o <<"\n">> \o
  <<"\n">> \o
  <<"F","H","H","Z">> \o <<"\n">> \o
  <<"I","F","Z","I">> \o <<"\n">> \o
  <<"I","L","J","I">> \o <<"\n">> \o
  <<"I","F","Z","I">> \o <<"\n">> \o
  <<"I","L","J","I">> \o <<"\n">> \o
  <<"L","H","H","J">> \o <<"\n">> \o
  <<"\n">> \o
  <<"F","H","H","Z">> \o <<"\n">> \o
  <<"I","F","Z","I">> \o <<"\n">> \o
  <<"I","L","J","I">> \o <<"\n">> \o
  <<"L","H","Z","I">> \o <<"\n">> \o
  <<"F","H","J","I">> \o <<"\n">> \o
  <<"L","H","H","J">>

(* ----------------------------- helpers --------------------------------- *)
\* JavaScript's remainder: the result takes the sign of the dividend
JSRem(x, m) == IF x >= 0 THEN x % m ELSE -((-x) % m)

clamp(v, lo, hi) == Min2(hi, Max2(lo, v))

\* String.prototype.split(/\n+/) on a sequence of characters: a field
\* starts at the beginning of the text and after every run of newlines,
\* and extends to the next newline or to the end of the text
split_starts(s) ==
  {1} \cup {i \in 2..(Len(s) + 1) :
              s[i - 1] = "\n" /\ (i = Len(s) + 1 \/ s[i] # "\n")}

split_end(s, i) ==
  CHOOSE j \in i..(Len(s) + 1) :
    /\ j = Len(s) + 1 \/ s[j] = "\n"
    /\ \A k \in i..(j - 1) : s[k] # "\n"

split(s) ==
  LET starts == split_starts(s)
      nth(k) == CHOOSE i \in starts :
                  Cardinality({j \in starts : j <= i}) = k
  IN [k \in 1..Cardinality(starts) |->
        SubSeq(s, nth(k), split_end(s, nth(k)) - 1)]

\* row.slice(0, w), the padEnd left out
padSlice_unpadded(row, w) == [j \in 1..Min2(w, Len(row)) |-> row[j]]

\* row.padEnd(w, ' ').slice(0, w)
padSlice(row, w) == [j \in 1..w |-> IF j <= Len(row) THEN row[j] ELSE " "]

\* the reduce of parse: consecutive rows are grouped into chunks of h rows
RECURSIVE chunk_from(_, _, _, _)
chunk_from(rows, i, acc, h) ==
  IF i > Len(rows) THEN acc
  ELSE IF Len(acc) = 0 \/ Len(acc[Len(acc)]) >= h
       THEN chunk_from(rows, i + 1, Append(acc, <<rows[i]>>), h)
       ELSE chunk_from(rows, i + 1,
                       [acc EXCEPT ![Len(acc)] = Append(@, rows[i])], h)

parse(d, w, h) ==
  LET lines == split(d)
      rows  == [k \in 1..Len(lines) |-> padSlice(lines[k], w)]
  IN chunk_from(rows, 1, <<>>, h)

variants == parse(data, width, height)

\* rotate: the two angles of a glyph, in model units
rotate(char) ==
  CASE char = "L" -> <<0, Q>>
    [] char = "I" -> <<0, 2 * Q>>
    [] char = "J" -> <<0, 3 * Q>>
    [] char = "F" -> <<Q, 2 * Q>>
    [] char = "H" -> <<Q, 3 * Q>>
    [] char = "Z" -> <<2 * Q, 3 * Q>>
    [] OTHER      -> <<5 * duration, 5 * duration>>

\* fwd without the correction of a negative remainder
fwd_unwrapped(a, b, m) == JSRem(b - a, m)

\* fwd: the forward distance from a to b
fwd(a, b, m) ==
  LET d == JSRem(b - a, m)
  IN IF d < 0 THEN d + m ELSE d

\* sort with < for <= in line 284: a tie takes the swapped pairing
sort_ties_swapped(from, to, m) ==
  LET a1 == from[1]
      a2 == from[2]
      b1 == to[1]
      b2 == to[2]
      d11 == fwd(a1, b1, m)
      d12 == fwd(a2, b2, m)
      d21 == fwd(a1, b2, m)
      d22 == fwd(a2, b1, m)
  IN IF d11 + d12 < d21 + d22
     THEN << <<a1, a2>>, <<JSRem(a1 + d11, m), JSRem(a2 + d12, m)>> >>
     ELSE << <<a1, a2>>, <<JSRem(a1 + d21, m), JSRem(a2 + d22, m)>> >>

\* sort with d12 for d22 in line 292: the second angle keeps its own target
sort_crossed(from, to, m) ==
  LET a1 == from[1]
      a2 == from[2]
      b1 == to[1]
      b2 == to[2]
      d11 == fwd(a1, b1, m)
      d12 == fwd(a2, b2, m)
      d21 == fwd(a1, b2, m)
      d22 == fwd(a2, b1, m)
  IN IF d11 + d12 <= d21 + d22
     THEN << <<a1, a2>>, <<JSRem(a1 + d11, m), JSRem(a2 + d12, m)>> >>
     ELSE << <<a1, a2>>, <<JSRem(a1 + d21, m), JSRem(a2 + d12, m)>> >>

\* sort: pairs the two source angles with the two target angles
sort(from, to, m) ==
  LET a1 == from[1]
      a2 == from[2]
      b1 == to[1]
      b2 == to[2]
      d11 == fwd(a1, b1, m)
      d12 == fwd(a2, b2, m)
      d21 == fwd(a1, b2, m)
      d22 == fwd(a2, b1, m)
  IN IF d11 + d12 <= d21 + d22
     THEN << <<a1, a2>>, <<JSRem(a1 + d11, m), JSRem(a2 + d12, m)>> >>
     ELSE << <<a1, a2>>, <<JSRem(a1 + d21, m), JSRem(a2 + d22, m)>> >>

(* ------------------------------ segment -------------------------------- *)
\* segment(char): the state after construction at instant t (render(to))
segment(char, t) ==
  [char |-> char, from |-> rotate(char), to |-> rotate(char), last |-> t,
   same |-> TRUE, shown |-> rotate(char), shownChar |-> char, drew |-> TRUE]

\* dt of current()
segment_dt(seg, t) == clamp(t - seg.last, 0, duration)

\* current(): the orientation interpolated at instant t
segment_current(seg, t) ==
  LET dt == segment_dt(seg, t)
  IN IF dt = duration
     THEN seg.to
     ELSE <<seg.from[1] + ((seg.to[1] - seg.from[1]) * dt) \div duration,
            seg.from[2] + ((seg.to[2] - seg.from[2]) * dt) \div duration>>

\* render(value)
segment_render(seg, value) ==
  [seg EXCEPT !.shown = value, !.shownChar = seg.char, !.drew = TRUE]

\* update() that draws the final orientation without assigning it to `from`
segment_update_nosettle(seg, t) ==
  IF seg.same
  THEN [seg EXCEPT !.drew = FALSE]
  ELSE IF segment_dt(seg, t) = duration
       THEN segment_render(seg, seg.to)
       ELSE segment_render(seg, segment_current(seg, t))

\* update() without the early return of lines 51-52
segment_update_noreturn(seg, t) ==
  IF segment_dt(seg, t) = duration
  THEN segment_render([seg EXCEPT !.from = seg.to, !.same = TRUE], seg.to)
  ELSE segment_render(seg, segment_current(seg, t))

\* update()
segment_update(seg, t) ==
  IF seg.same
  THEN [seg EXCEPT !.drew = FALSE]
  ELSE IF segment_dt(seg, t) = duration
       THEN segment_render([seg EXCEPT !.from = seg.to, !.same = TRUE], seg.to)
       ELSE segment_render(seg, segment_current(seg, t))

\* the `from` that `set char` captures (lines 94-95), before the
\* pre-adjustment: current() is evaluated after `last` has been reset
segment_capture(seg, t) ==
  segment_current([seg EXCEPT !.last = t + delay], t)

\* lines 98-99 left out
segment_adjust_none(from, to) == from

\* line 99 left out: only from[0] is adjusted
segment_adjust_first_only(from, to) ==
  LET lo == Min2(to[1], to[2])
  IN <<IF from[1] > lo THEN from[1] - max * Q ELSE from[1], from[2]>>

\* line 99 subtracting from from[0] again instead of from[1]
segment_adjust_copy_paste(from, to) ==
  LET lo == Min2(to[1], to[2])
      f1 == IF from[1] > lo THEN from[1] - max * Q ELSE from[1]
  IN <<IF from[2] > lo THEN f1 - max * Q ELSE f1, from[2]>>

\* the pre-adjustment of lines 98-99
segment_adjust(from, to) ==
  LET lo == Min2(to[1], to[2])
  IN <<IF from[1] > lo THEN from[1] - max * Q ELSE from[1],
       IF from[2] > lo THEN from[2] - max * Q ELSE from[2]>>

\* set char(v) without the early return of lines 91-92
segment_set_char_restart(seg, v, t) ==
  LET to0 == rotate(v)
      st  == sort(segment_adjust(segment_capture(seg, t), to0), to0, max * Q)
  IN [seg EXCEPT !.char = v, !.last = t + delay,
                 !.from = st[1], !.to = st[2], !.same = FALSE]

\* set char(v)
segment_set_char(seg, v, t) ==
  IF v = seg.char
  THEN seg
  ELSE LET to0 == rotate(v)
           st  == sort(segment_adjust(segment_capture(seg, t), to0),
                       to0, max * Q)
       IN [seg EXCEPT !.char = v, !.last = t + delay,
                      !.from = st[1], !.to = st[2], !.same = FALSE]

(* ------------------------------- digit --------------------------------- *)
RECURSIVE flat_from(_, _)
flat_from(grid, i) ==
  IF i > Len(grid) THEN <<>> ELSE grid[i] \o flat_from(grid, i + 1)

flat_variants == [n \in 0..(Len(variants) - 1) |-> flat_from(variants[n + 1], 1)]

\* variant(n): the glyph grid of digit n, flattened row-major
variant(n) == flat_variants[n]

digit(value, t) ==
  [value |-> value,
   segments |-> [i \in 1..(width * height) |-> segment(variant(value)[i], t)]]

\* set(value)
digit_set(segments, value, t) ==
  LET data_ == variant(value)
  IN [i \in 1..(width * height) |-> segment_set_char(segments[i], data_[i], t)]

\* set value(v) without the call of set in line 142
digit_set_value_noset(dig, v, t) ==
  IF v = dig.value
  THEN dig
  ELSE [dig EXCEPT !.value = v]

\* set value(v)
digit_set_value(dig, v, t) ==
  IF v = dig.value
  THEN dig
  ELSE [value |-> v, segments |-> digit_set(dig.segments, v, t)]

\* update()
digit_update(dig, t) ==
  [dig EXCEPT !.segments =
     [i \in 1..(width * height) |-> segment_update(@[i], t)]]

(* ------------------------------ numeric -------------------------------- *)
\* get(i) with the exponent count - i
numeric_get_shifted(v, i) == (v \div (10 ^ (count - i))) % 10

\* get(i) for the value v, i = 0 .. count - 1
numeric_get(v, i) == (v \div (10 ^ (count - i - 1))) % 10

numeric(value, t) ==
  [value |-> value,
   digits |-> [j \in 1..NumDigits |-> digit(numeric_get(value, j - 1), t)]]

\* set value(v)
numeric_set_value(num, v, t) ==
  IF v = num.value
  THEN num
  ELSE [value |-> v,
        digits |-> [j \in 1..NumDigits |->
                      digit_set_value(num.digits[j], numeric_get(v, j - 1), t)]]

\* update()
numeric_update(num, t) ==
  [num EXCEPT !.digits = [j \in 1..NumDigits |-> digit_update(@[j], t)]]

(* ------------------------------- clock --------------------------------- *)
\* the value new Date() yields at construction, line 188, and the values
\* it yields later, line 210: <<hours, minutes, seconds>>
Date0 == <<12, 5, 52>>
Dates == { <<12, 5, 47>>, <<9, 34, 45>> }

\* get(i)
clock_get(d, i) ==
  CASE i = 0 -> d[1]
    [] i = 1 -> d[2]
    [] i = 2 -> d[3]
    [] OTHER -> 0

SegIds == (1..NumNumerics) \X (1..NumDigits) \X (1..(width * height))

Seg(nums, id) == nums[id[1]].digits[id[2]].segments[id[3]]

\* line 212: numerics.forEach((numeric, i) => numeric.value = get(i))
clock_propagate(nums, d, t) ==
  [n \in 1..NumNumerics |-> numeric_set_value(nums[n], clock_get(d, n - 1), t)]

\* line 213: numerics.forEach(numeric => numeric.update())
clock_redraw(nums, t) ==
  [n \in 1..NumNumerics |-> numeric_update(nums[n], t)]

VARIABLES now, date, run, pending, numerics, op, parent, hostIn, arg, ret

vars == <<now, date, run, pending, numerics, op, parent, hostIn, arg, ret>>

\* clock(): the state after construction
Init ==
  /\ now = 0
  /\ date = Date0
  /\ run = FALSE
  /\ pending = 0
  /\ numerics = [n \in 1..NumNumerics |-> numeric(clock_get(date, n - 1), now)]
  /\ op = "new"
  /\ parent = "none"
  /\ hostIn = FALSE
  /\ arg = <<>>
  /\ ret = <<>>

\* update() with lines 212 and 213 exchanged
clock_update_redraw_first(r, p) ==
  IF ~r
  THEN /\ pending' = p
       /\ UNCHANGED <<date, numerics>>
  ELSE \E d \in Dates :
         /\ date' = d
         /\ pending' = p + 1
         /\ \E mid \in {clock_redraw(numerics, now)} :
              numerics' = clock_propagate(mid, d, now)

\* update() with line 211 moved before the test of the flag in line 209
clock_update_reschedules(r, p) ==
  IF ~r
  THEN /\ pending' = p + 1
       /\ UNCHANGED <<date, numerics>>
  ELSE \E d \in Dates :
         /\ date' = d
         /\ pending' = p + 1
         /\ \E mid \in {clock_propagate(numerics, d, now)} :
              numerics' = clock_redraw(mid, now)

\* update() without the test of the flag in line 209
clock_update_unflagged(r, p) ==
  \E d \in Dates :
    /\ date' = d
    /\ pending' = p + 1
    /\ \E mid \in {clock_propagate(numerics, d, now)} :
         numerics' = clock_redraw(mid, now)

\* update(), called with the flag r while p callbacks are queued
clock_update(r, p) ==
  IF ~r
  THEN /\ pending' = p
       /\ UNCHANGED <<date, numerics>>
  ELSE \E d \in Dates :
         /\ date' = d
         /\ pending' = p + 1
         /\ \E mid \in {clock_propagate(numerics, d, now)} :
              numerics' = clock_redraw(mid, now)

\* start() without the test of the flag in line 218
start_unguarded ==
  /\ op' = "start"
  /\ now' = now
  /\ pending < MaxPending
  /\ run' = TRUE
  /\ clock_update(TRUE, pending)

\* start()
start ==
  /\ op' = "start"
  /\ now' = now
  /\ IF run
     THEN UNCHANGED <<run, date, pending, numerics>>
     ELSE /\ pending < MaxPending
          /\ run' = TRUE
          /\ clock_update(TRUE, pending)

\* stop()
stop ==
  /\ op' = "stop"
  /\ run' = FALSE
  /\ UNCHANGED <<now, date, pending, numerics>>

\* the handle of the clock is called
Start == start /\ UNCHANGED <<parent, hostIn, arg, ret>>

Stop == stop /\ UNCHANGED <<parent, hostIn, arg, ret>>

\* a callback queued by requestAnimationFrame(update) fires
Frame ==
  /\ pending > 0
  /\ op' = "frame"
  /\ UNCHANGED <<now, run>>
  /\ clock_update(run, pending - 1)
  /\ UNCHANGED <<parent, hostIn, arg, ret>>

\* time passes between two handlers
Elapse ==
  /\ now < MaxTime
  /\ now' = now + 1
  /\ op' = "time"
  /\ UNCHANGED <<date, run, pending, numerics>>
  /\ UNCHANGED <<parent, hostIn, arg, ret>>

Next == Start \/ Stop \/ Frame \/ Elapse

Spec == Init /\ [][Next]_vars

\* the browser delivers the frame callbacks it has queued; the fairness
\* is stated for the callbacks that find the clock stopped
FairSpec == Spec /\ WF_vars(~run /\ Frame)

(* ------------------ the lifecycle bridge, lines 12-26 ------------------ *)
\* the container is in the document
InTree == parent = "body" \/ (parent = "host" /\ hostIn)

\* the MutationObserver callback, for the records of one operation: the
\* handle of an added or removed node is looked up in `store`, which holds
\* the container of the clock only
observer(mutations) ==
  IF \E i \in 1..Len(mutations) : "node" \in mutations[i].addedNodes
  THEN start
  ELSE IF \E i \in 1..Len(mutations) : "node" \in mutations[i].removedNodes
       THEN stop
       ELSE /\ op' = "dom"
            /\ UNCHANGED <<now, date, run, pending, numerics>>

\* what observe(document.body, {childList, subtree}) reports of an
\* operation on the children of `target`: nothing outside the document
records(inDocument, addedNodes, removedNodes) ==
  IF inDocument
  THEN << [addedNodes |-> addedNodes, removedNodes |-> removedNodes] >>
  ELSE << >>

\* document.body.appendChild(node)
AppendNode ==
  /\ parent = "none"
  /\ parent' = "body"
  /\ observer(records(TRUE, {"node"}, {}))
  /\ UNCHANGED <<hostIn, arg, ret>>

\* host.appendChild(node)
AppendNodeToHost ==
  /\ parent = "none"
  /\ parent' = "host"
  /\ observer(records(hostIn, {"node"}, {}))
  /\ UNCHANGED <<hostIn, arg, ret>>

\* document.body.appendChild(host)
AppendHost ==
  /\ ~hostIn
  /\ hostIn' = TRUE
  /\ observer(records(TRUE, {"host"}, {}))
  /\ UNCHANGED <<parent, arg, ret>>

\* node.remove()
RemoveNode ==
  /\ parent # "none"
  /\ parent' = "none"
  /\ observer(records(InTree, {}, {"node"}))
  /\ UNCHANGED <<hostIn, arg, ret>>

\* host.remove()
RemoveHost ==
  /\ hostIn
  /\ hostIn' = FALSE
  /\ observer(records(TRUE, {}, {"host"}))
  /\ UNCHANGED <<parent, arg, ret>>

BridgeNext ==
  \/ AppendNode
  \/ AppendNodeToHost
  \/ AppendHost
  \/ RemoveNode
  \/ RemoveHost
  \/ Frame
  \/ Elapse

\* the clock driven by the page through the observer alone
BridgeSpec == Init /\ [][BridgeNext]_vars

(* ------------------- the pure functions, called alone ------------------ *)
\* the state in which a function is about to be applied to a: no clock
\* has been constructed
Call(a) ==
  /\ now = 0
  /\ date = Date0
  /\ run = FALSE
  /\ pending = 0
  /\ numerics = << >>
  /\ op = "call"
  /\ parent = "none"
  /\ hostIn = FALSE
  /\ arg = a
  /\ ret = << >>

Alphabet == <<"a", "b", "c", "d", "e", "f", "g">>

\* line i of a source text: len characters, none of them a newline
source_line(i, len) == [j \in 1..len |-> Alphabet[((3 * i + j) % 7) + 1]]

\* the lines of a text, joined by gap newlines
RECURSIVE join(_, _, _)
join(lines, i, gap) ==
  IF i > Len(lines) THEN << >>
  ELSE IF i = Len(lines) THEN lines[i]
  ELSE lines[i] \o [k \in 1..gap |-> "\n"] \o join(lines, i + 1, gap)

\* a source text of n lines whose lengths run over w - 1, w and w + 1
\* (at least 1), for a table of width w and height h
source(n, w, h, shift, gap) ==
  LET lines == [i \in 1..n |->
                  source_line(i, Max2(1, w - 1 + ((i + shift) % 3)))]
  IN [lines |-> lines, text |-> join(lines, 1, gap), w |-> w, h |-> h]

\* the texts parse is applied to: from no line to one line more than the
\* 10 * h lines of ten digits
Sources ==
  UNION { { source(n, w, h, shift, gap) :
              n \in 0..(10 * h + 1), w \in 1..MaxW,
              shift \in 0..2, gap \in 1..2 } : h \in 1..MaxH }

ParseInit == \E a \in Sources : Call(a)

\* parse(data, width, height)
Parse ==
  /\ op = "call"
  /\ op' = "parse"
  /\ ret' = parse(arg.text, arg.w, arg.h)
  /\ UNCHANGED <<now, date, run, pending, numerics, parent, hostIn, arg>>

ParseSpec == ParseInit /\ [][Parse]_vars

\* the angles fwd is applied to: a in (-4, 4) and b in [0, 4)
FwdArgs == ((1 - max * Q)..(max * Q - 1)) \X (0..(max * Q - 1))

FwdInit == \E a \in FwdArgs : Call(a)

\* fwd(a, b)
Fwd ==
  /\ op = "call"
  /\ op' = "fwd"
  /\ ret' = fwd(arg[1], arg[2], max * Q)
  /\ UNCHANGED <<now, date, run, pending, numerics, parent, hostIn, arg>>

FwdSpec == FwdInit /\ [][Fwd]_vars

\* the pairs sort is applied to, on the grid of half quarter turns:
\* from in (-4, 4) and to in [0, 4), componentwise
SortFrom == {k * duration : k \in (1 - 2 * max)..(2 * max - 1)}
SortTo == {k * duration : k \in 0..(2 * max - 1)}
SortArgs == (SortFrom \X SortFrom) \X (SortTo \X SortTo)

SortInit == \E a \in SortArgs : Call(a)

\* sort(from, to)
Sort ==
  /\ op = "call"
  /\ op' = "sort"
  /\ ret' = sort(arg[1], arg[2], max * Q)
  /\ UNCHANGED <<now, date, run, pending, numerics, parent, hostIn, arg>>

SortSpec == SortInit /\ [][Sort]_vars

TypeOK ==
  /\ now \in 0..MaxTime
  /\ date \in Dates \cup {Date0}
  /\ run \in BOOLEAN
  /\ pending \in 0..MaxPending
  /\ op \in {"new", "start", "stop", "frame", "time", "dom"}
  /\ parent \in {"none", "body", "host"}
  /\ hostIn \in BOOLEAN
  /\ Len(variants) = 10
  \* every angle is a multiple of half a quarter turn, so the division in
  \* segment_current is exact
  /\ \A id \in SegIds : \A k \in 1..2 :
       /\ Seg(numerics, id).from[k] % duration = 0
       /\ Seg(numerics, id).to[k] % duration = 0
       /\ Seg(numerics, id).last \in 0..now

(* ------------------------------ claims --------------------------------- *)
\* update() ran in this step: start() on a stopped clock, or a frame
\* callback that found the flag set
Ticked == \/ op' = "start" /\ ~run /\ run'
          \/ op' = "frame" /\ run /\ pending > 0 /\ pending' = pending

\* C1: at most one frame callback of the Clock is queued at any time,
\* also after stop() followed by start() before the queued callback fired.
C1_AtMostOnePending == pending <= 1

\* C2: while the clock stays stopped no callback is queued again, and
\* under fair delivery of frame callbacks a stopped clock that is not
\* restarted ends with no callback queued.
C2_LoopTerminates ==
  /\ [][(~run /\ ~run') => pending' <= pending]_vars
  /\ (~run) ~> (run \/ pending = 0)

\* a queued callback fired on the stopped clock and left nothing queued
C2_Witness == op = "frame" /\ ~run /\ pending = 0

\* C3: start() on a running clock and stop() on a stopped clock change
\* neither the flag, the queued callbacks, the sampled date nor any
\* Numeric, Digit or Segment, and run no tick.
C3_RedundantCallsNoOp ==
  [][((op' = "start" /\ run) \/ (op' = "stop" /\ ~run))
       => UNCHANGED <<now, run, pending, date, numerics>>]_vars

\* start() returned on a running clock: a segment in mid-transition still
\* shows an orientation older than the one of this instant
C3_Witness ==
  /\ op = "start" /\ run /\ pending > 0
  /\ \E id \in SegIds :
       /\ ~Seg(numerics, id).same
       /\ Seg(numerics, id).shown # segment_current(Seg(numerics, id), now)

\* componentwise equality of two orientations up to whole turns
SameAngles(u, v) ==
  /\ (u[1] - v[1]) % (max * Q) = 0
  /\ (u[2] - v[2]) % (max * Q) = 0

\* C4: whenever a Segment is assigned a different glyph, the new `from`
\* (compared modulo 4, i.e. before the subtract-4 pre-adjustment) is the
\* orientation the segment renders at that instant: the interpolation of
\* the previous from/to at the current time.
C4_FromIsRendered ==
  [][\A id \in SegIds :
       Seg(numerics', id).char # Seg(numerics, id).char
         => SameAngles(Seg(numerics', id).from,
                       segment_current(Seg(numerics, id), now))]_vars

\* equality of two orientations as unordered pairs, up to whole turns
SamePair(u, v) == SameAngles(u, v) \/ SameAngles(u, <<v[2], v[1]>>)

\* the glyph characters of the rotation mapping, and the blank
Glyphs == {"L", "I", "J", "F", "H", "Z", " "}

\* C5 as stated: once the transition window of the last glyph change has
\* elapsed and update() has run, the Segment's orientation pair is exactly
\* the pair the rotation mapping assigns to its glyph (same values, same
\* component order).
C5_SettlesExactly ==
  [][Ticked =>
       \A id \in SegIds :
         LET s1 == Seg(numerics', id)
         IN now - s1.last >= duration
              => /\ s1.same
                 /\ s1.from = rotate(s1.char)
                 /\ s1.to = rotate(s1.char)]_vars

\* C5 amended: once the transition window of the last glyph change has
\* elapsed and update() has run, the Segment is settled (from and to are
\* the same pair, which is the pair drawn) and that pair equals the pair of
\* its glyph modulo whole turns and as an unordered pair.
C5_SettlesOnGlyph ==
  [][Ticked =>
       \A id \in SegIds :
         LET s1 == Seg(numerics', id)
         IN now - s1.last >= duration
              => /\ s1.same
                 /\ s1.from = s1.to
                 /\ s1.shown = s1.to
                 /\ SamePair(s1.to, rotate(s1.char))]_vars

\* a frame has just settled a segment on a pair that is not literally the
\* pair of its glyph
C5_Witness ==
  /\ op = "frame"
  /\ \E id \in SegIds :
       /\ Seg(numerics, id).same
       /\ Seg(numerics, id).drew
       /\ now - Seg(numerics, id).last >= duration
       /\ Seg(numerics, id).to # rotate(Seg(numerics, id).char)

\* the glyph the Glyph Table gives segment id under the date d
GlyphAt(d, id) ==
  variant(numeric_get(clock_get(d, id[1] - 1), id[2] - 1))[id[3]]

Forward(seg) == seg.to[1] - seg.from[1] >= 0 /\ seg.to[2] - seg.from[2] >= 0

\* C6: in every state every Segment has to_i - from_i >= 0 for both
\* components, and assigning any glyph to any Segment in any reachable
\* state commits a pair with to_i - from_i >= 0.
C6_ForwardSweep ==
  \A seg \in {Seg(numerics, id) : id \in SegIds} :
    /\ Forward(seg)
    /\ \A g \in Glyphs : Forward(segment_set_char(seg, g, now))

\* a segment that settled on a second glyph and was then given a third
\* one: its `from` is no longer the pair of the glyph it was built with
C6_Witness ==
  \E id \in SegIds :
    /\ ~Seg(numerics, id).same
    /\ ~SamePair(Seg(numerics, id).from, rotate(GlyphAt(Date0, id)))
    /\ \E k \in 1..2 : Seg(numerics, id).to[k] > Seg(numerics, id).from[k]

\* C7: the interpolation is exactly `from` at elapsed time 0 and exactly
\* `to` from elapsed time duration on; an update() at elapsed time >=
\* duration leaves the Segment settled; an update() of a settled Segment
\* changes neither from, to nor the orientation drawn and does not redraw.
C7_InterpolationEnds ==
  [][Ticked =>
       \A id \in SegIds :
         LET s0 == Seg(numerics, id)
             s1 == Seg(numerics', id)
         IN /\ segment_current(s1, s1.last) = s1.from
            /\ \A e \in duration..(duration + 1) :
                 segment_current(s1, s1.last + e) = s1.to
            /\ now - s1.last >= duration => s1.same /\ s1.from = s1.to
            /\ (s0.same /\ s1.char = s0.char)
                 => /\ s1.same
                    /\ s1.from = s0.from
                    /\ s1.to = s0.to
                    /\ s1.shown = s0.shown
                    /\ ~s1.drew]_vars

\* a segment that went through a transition is settled and its latest
\* update() did not draw
C7_Witness ==
  /\ op = "frame"
  /\ \E id \in SegIds :
       /\ Seg(numerics, id).same
       /\ ~Seg(numerics, id).drew
       /\ Seg(numerics, id).last > 0
       /\ now - Seg(numerics, id).last >= duration

\* C8: after a tick every Segment holds the glyph of the time sampled in
\* that tick, and every Segment drawn in the tick was drawn for that glyph,
\* at the orientation its committed from/to give at the instant of the tick.
C8_PropagateBeforeRedraw ==
  [][Ticked =>
       \A id \in SegIds :
         LET s1 == Seg(numerics', id)
         IN /\ s1.char = GlyphAt(date', id)
            /\ s1.shownChar = s1.char
            /\ s1.drew => s1.shown = segment_current(s1, now)]_vars

\* a frame changed the glyph of a segment and drew it in the same tick
C8_Witness ==
  /\ op = "frame"
  /\ now > 0
  /\ \E id \in SegIds :
       /\ Seg(numerics, id).last = now
       /\ ~Seg(numerics, id).same
       /\ Seg(numerics, id).drew
       /\ Seg(numerics, id).shownChar = GlyphAt(date, id)

\* C9: the three Numerics hold the hour, minute and second of the time
\* sampled last, each value is in 0..99 and its two Digits hold
\* floor(v / 10) mod 10 and v mod 10; assigning any v in 0..99 to a
\* newly built Numeric drives its Digits to floor(v / 10) mod 10 and v mod 10.
C9_NumericsHoldSample ==
  /\ \A n \in 1..NumNumerics :
       /\ numerics[n].value = date[n]
       /\ numerics[n].value \in 0..99
       /\ numerics[n].digits[1].value = (numerics[n].value \div 10) % 10
       /\ numerics[n].digits[2].value = numerics[n].value % 10
  /\ op = "new" =>
       \A v \in 0..99 :
         /\ numeric_set_value(numerics[3], v, now).value = v
         /\ numeric_set_value(numerics[3], v, now).digits[1].value
              = (v \div 10) % 10
         /\ numeric_set_value(numerics[3], v, now).digits[2].value = v % 10

\* a frame changed the seconds to 47 while the minutes are 5
C9_Witness ==
  /\ op = "frame"
  /\ date = <<12, 5, 47>>
  /\ numerics[3].value = 47
  /\ numerics[3].digits[1].value = 4 /\ numerics[3].digits[2].value = 7
  /\ numerics[2].digits[1].value = 0 /\ numerics[2].digits[2].value = 5
  /\ \E i \in 1..(width * height) :
       numerics[3].digits[2].segments[i].last = now /\ now > 0

\* C10: in a tick, a Digit whose value does not change and, in a Digit
\* whose value changes, a Segment whose glyph does not change, undergo
\* nothing but update(): glyph, to and animation start are unchanged and
\* `from` changes only by settling.
C10_SameGlyphUntouched ==
  [][Ticked =>
       /\ \A n \in 1..NumNumerics : \A j \in 1..NumDigits :
            numerics'[n].digits[j].value = numerics[n].digits[j].value
              => numerics'[n].digits[j] = digit_update(numerics[n].digits[j], now)
       /\ \A id \in SegIds :
            LET s0 == Seg(numerics, id)
                s1 == Seg(numerics', id)
            IN s1.char = s0.char
                 => /\ s1 = segment_update(s0, now)
                    /\ s1.to = s0.to
                    /\ s1.last = s0.last]_vars

\* a frame changed the value of a Digit while one of its segments, in
\* mid-transition, kept its glyph and its animation start
C10_Witness ==
  /\ op = "frame"
  /\ \E n \in 1..NumNumerics : \E j \in 1..NumDigits :
       \E i, k \in 1..(width * height) :
         /\ numerics[n].digits[j].segments[i].last = now
         /\ ~numerics[n].digits[j].segments[k].same
         /\ numerics[n].digits[j].segments[k].last < now
         /\ now - numerics[n].digits[j].segments[k].last < duration

\* the forward distance from angle a to angle b, as a number in [0, 4)
Dist(a, b) == (b - a) % (max * Q)

\* C11: sort commits the pairing (direct: from[0]->to[0], from[1]->to[1];
\* swapped: from[0]->to[1], from[1]->to[0]) whose sum of forward distances
\* is smaller, the direct one on a tie; the committed total never exceeds
\* either sum; from = [0,0] with target [1,3] commits to = [1,3].
C11_SmallerPairing ==
  op = "sort" =>
    LET from == arg[1]
        to == arg[2]
        direct == Dist(from[1], to[1]) + Dist(from[2], to[2])
        swapped == Dist(from[1], to[2]) + Dist(from[2], to[1])
        total == Dist(ret[1][1], ret[2][1]) + Dist(ret[1][2], ret[2][2])
    IN /\ ret[1] = from
       /\ direct <= swapped => SameAngles(ret[2], to)
       /\ swapped < direct => SameAngles(ret[2], <<to[2], to[1]>>)
       /\ total <= direct /\ total <= swapped
       /\ (from = <<0, 0>> /\ to = <<Q, 3 * Q>>) => ret[2] = <<Q, 3 * Q>>

\* sort was applied to from = [0,0] and the target [1,3] of the horizontal
\* glyph, where both pairings sum to 4
C11_Witness ==
  /\ op = "sort"
  /\ arg = << <<0, 0>>, <<Q, 3 * Q>> >>
  /\ Dist(0, Q) + Dist(0, 3 * Q) = max * Q
  /\ ret[2] = <<Q, 3 * Q>>

\* C12: after every operation on the document and the observer callback
\* that follows it, the clock is running iff its container is in the
\* document, whether the container was inserted or removed itself or as a
\* descendant of an inserted or removed element.
C12_RunningIffInTree == run <=> InTree

\* C13: a step that ends with the clock stopped (stop() itself, a frame
\* callback that finds it stopped, the passing of time) changes no Numeric,
\* Digit or Segment field, draws on no canvas and samples no date.
C13_StoppedIsFrozen ==
  [][~run' => (numerics' = numerics /\ date' = date)]_vars

\* a frame callback fired on the stopped clock while a segment's
\* transition was over but not yet settled, and left it so
C13_Witness ==
  /\ op = "frame"
  /\ ~run
  /\ \E id \in SegIds :
       /\ ~Seg(numerics, id).same
       /\ now - Seg(numerics, id).last >= duration
       /\ Seg(numerics, id).shown # Seg(numerics, id).to

\* C14: parse returns no table with fewer than 10 grids and no grid with
\* fewer than height rows (a malformed source is rejected instead).
C14_MalformedRejected ==
  op = "parse" =>
    /\ Len(ret) >= 10
    /\ \A k \in 1..Len(ret) : Len(ret[k]) >= arg.h

\* C15: for a source of exactly 10 * height lines parse returns exactly 10
\* grids of exactly height rows of exactly width characters, row r of grid
\* k being source line k * height + r cut to width characters or padded
\* with spaces on the right.
C15_TenGrids ==
  (op = "parse" /\ Len(arg.lines) = 10 * arg.h) =>
    /\ Len(ret) = 10
    /\ \A k \in 0..9 :
         /\ Len(ret[k + 1]) = arg.h
         /\ \A r \in 0..(arg.h - 1) :
              LET row == ret[k + 1][r + 1]
                  line == arg.lines[k * arg.h + r + 1]
              IN /\ Len(row) = arg.w
                 /\ \A j \in 1..arg.w :
                      row[j] = IF j <= Len(line) THEN line[j] ELSE " "

\* a source of 10 * height lines, height > 1, with a line shorter and a
\* line longer than width, was parsed
C15_Witness ==
  /\ op = "parse"
  /\ arg.h > 1
  /\ Len(arg.lines) = 10 * arg.h
  /\ \E i, j \in 1..Len(arg.lines) :
       Len(arg.lines[i]) < arg.w /\ Len(arg.lines[j]) > arg.w
  /\ Len(ret) = 10

\* the distances of the pairing sort chooses for from and to
Chosen(from, to) ==
  IF Dist(from[1], to[1]) + Dist(from[2], to[2])
       <= Dist(from[1], to[2]) + Dist(from[2], to[1])
  THEN <<Dist(from[1], to[1]), Dist(from[2], to[2])>>
  ELSE <<Dist(from[1], to[2]), Dist(from[2], to[1])>>

\* C16: assigning any other glyph to any Segment in any reachable state
\* commits to_i = from_i + d_i exactly, d the forward distances of the
\* chosen pairing and from the pre-adjusted pair: the remainder by max in
\* sort changes no from_i + d_i.
C16_TargetUnwrapped ==
  \A seg \in {Seg(numerics, id) : id \in SegIds} :
    \A g \in Glyphs \ {seg.char} :
      LET from == segment_adjust(segment_capture(seg, now), rotate(g))
          d == Chosen(from, rotate(g))
          s1 == segment_set_char(seg, g, now)
      IN /\ s1.from = from
         /\ s1.to = <<from[1] + d[1], from[2] + d[2]>>
         /\ JSRem(from[1] + d[1], max * Q) = from[1] + d[1]
         /\ JSRem(from[2] + d[2], max * Q) = from[2] + d[2]

\* a segment whose `from` was pre-adjusted below zero in both components
\* and whose target lies a positive distance ahead of it
C16_Witness ==
  \E id \in SegIds :
    LET seg == Seg(numerics, id)
    IN /\ ~seg.same
       /\ seg.from[1] < 0 /\ seg.from[2] < 0
       /\ seg.to = <<seg.from[1] + Chosen(seg.from, rotate(seg.char))[1],
                     seg.from[2] + Chosen(seg.from, rotate(seg.char))[2]>>
       /\ seg.to # seg.from

\* C17: in every state the committed `to` of every Segment is, as an
\* unordered pair and up to whole turns, the pair rotate assigns to the
\* Segment's glyph.
C17_TargetIsGlyph ==
  \A seg \in {Seg(numerics, id) : id \in SegIds} :
    SamePair(seg.to, rotate(seg.char))

\* a segment on its third glyph whose `to` differs from the pair of the
\* glyph as a value (swapped, or a whole turn below)
C17_Witness ==
  \E id \in SegIds :
    LET seg == Seg(numerics, id)
    IN /\ seg.char # GlyphAt(Date0, id)
       /\ ~SamePair(seg.from, rotate(GlyphAt(Date0, id)))
       /\ seg.to # rotate(seg.char)
       /\ SamePair(seg.to, rotate(seg.char))

\* C18: in every state every Digit's value is the decimal digit of its
\* Numeric's value at the Digit's position, and every Segment's glyph is
\* the entry of the Glyph Table for that digit at the Segment's row-major
\* index.
C18_GlyphsFollowValue ==
  \A n \in 1..NumNumerics : \A j \in 1..NumDigits :
    LET dig == numerics[n].digits[j]
    IN /\ dig.value = (numerics[n].value \div (10 ^ (NumDigits - j))) % 10
       /\ \A r \in 0..(height - 1) : \A c \in 0..(width - 1) :
            dig.segments[r * width + c + 1].char
              = variants[dig.value + 1][r + 1][c + 1]

\* a tick assigned new values: a Digit shows another digit than at
\* construction and one of its segments another glyph
C18_Witness ==
  /\ op \in {"start", "frame"}
  /\ date # Date0
  /\ \E id \in SegIds :
       /\ numerics[id[1]].digits[id[2]].value
            # numeric_get(clock_get(Date0, id[1] - 1), id[2] - 1)
       /\ Seg(numerics, id).char # GlyphAt(Date0, id)
       /\ Seg(numerics, id).char = GlyphAt(date, id)

\* C19: every component of from and to of every Segment lies strictly
\* between -4 and 4; the `from` of a Segment in transition, and the
\* pre-adjusted `from` of any glyph assignment in any reachable state, is
\* at most the smaller angle of the target glyph.
C19_AnglesBounded ==
  \A seg \in {Seg(numerics, id) : id \in SegIds} :
    /\ \A k \in 1..2 :
         /\ seg.from[k] > -(max * Q) /\ seg.from[k] < max * Q
         /\ seg.to[k] > -(max * Q) /\ seg.to[k] < max * Q
         /\ ~seg.same =>
              seg.from[k] <= Min2(rotate(seg.char)[1], rotate(seg.char)[2])
    /\ \A g \in Glyphs : \A k \in 1..2 :
         LET from == segment_adjust(segment_capture(seg, now), rotate(g))
         IN /\ from[k] <= Min2(rotate(g)[1], rotate(g)[2])
            /\ from[k] > -(max * Q)

\* a segment that settled on a pair with a negative angle and was then
\* given another glyph
C19_Witness ==
  \E id \in SegIds :
    LET seg == Seg(numerics, id)
    IN /\ ~seg.same
       /\ ~SamePair(seg.from, rotate(GlyphAt(Date0, id)))
       /\ seg.from[1] < 0 \/ seg.from[2] < 0
       /\ seg.to[1] < 0 \/ seg.to[2] < 0

\* C20: for a in (-4, 4) and b in [0, 4), fwd(a, b) lies in [0, 4) and
\* differs from b - a by a multiple of 4.
C20_FwdInRange ==
  op = "fwd" =>
    /\ ret >= 0 /\ ret < max * Q
    /\ (ret - (arg[2] - arg[1])) % (max * Q) = 0

\* fwd was applied to a negative a and a b more than a whole turn ahead
C20_Witness ==
  /\ op = "fwd"
  /\ arg[1] < 0
  /\ arg[2] - arg[1] > max * Q
  /\ ret = arg[2] - arg[1] - max * Q

====
